---- MODULE Spec2Model ----
(***************************************************************************)
(* A model of gitdb's block / record storage engine (block.go) and of the  *)
(* model envelope (model.go).                                              *)
(*                                                                         *)
(*   SpecIndex : the in-memory record index of blocks made by newBlock     *)
(*               (add, get, delete, size)                                  *)
(*   SpecRead  : hydration of the blocks of one Dataset from their files   *)
(*               (RecordCount, loadRecords, records, readBlock)            *)
(*   SpecModel : the envelope around a domain model (wrap, Validate,       *)
(*               BeforeInsert)                                             *)
(***************************************************************************)
EXTENDS Integers, Sequences, FiniteSets, TLC

VARIABLES
    origin,      \* per block, how the block struct was made (see BlockOrigins)
    blockSize,   \* per block, b.Size: the size of the block file in bytes
    booking,     \* per instance, the fields of a BookingModel
    stamped,     \* the fields of a TimeStampedModel
    wire,        \* the bytes of a serialized block, as last marshalled or set
    recs,        \* block.recs     : per block, key -> record (the record index)
    hist,        \* history        : per block and key, the most recent index write
    files,       \* the file system: per block, the content of <block>.json
    Records,     \* block.Records  : per block, the hydrated record list
    hydrated,    \* history        : per block, a hydrating call has run on it
    BadBlocks,   \* dataset.BadBlocks
    BadRecords,  \* dataset.BadRecords
    crashed,     \* the process died of a run-time panic
    envelope,    \* the *model made by wrap, its Data being the domain model
    now,         \* the wall clock read by time.Now()
    last         \* the most recent call: its operation, arguments and results

idxVars  == <<recs, hist>>
readVars == <<files, Records, hydrated, BadBlocks, BadRecords, crashed>>
modVars  == <<envelope, now>>
restVars == <<origin, blockSize, booking, stamped, wire>>
vars     == <<origin, blockSize, booking, stamped, wire, recs, hist, files, Records, hydrated, BadBlocks, BadRecords,
              crashed, envelope, now, last>>

(***************************************************************************)
(* Values                                                                  *)
(***************************************************************************)
Blocks == {"b1", "b2"}
Keys   == {"a", "b"}

\* error values: the nil error and the one made by errors.New in get / delete
NoErr       == "nil"
ErrNotFound == "key does not exist"

\* JSON texts used as record contents and as the entries of block files
TxtXY   == "{\"Data\":{\"x\":1,\"y\":2}}"
TxtX    == "{\"Data\":{\"x\":3}}"
TxtYX   == "{\"Data\":{\"y\":4,\"x\":5}}"
\* a value of 45 characters
LongValue == "0123456789012345678901234567890123456789ABCDE"
TxtLong == "{\"Data\":{\"x\":\"" \o LongValue \o "\"}}"
TxtNull == "null"
TxtNum  == "5"
TxtBad  == "not valid json"
\* ciphertexts under the dataset's key: of TxtXY and of TxtBad
EncXY   == "enc(TxtXY)"
EncBad  == "enc(TxtBad)"

Values == {TxtXY, TxtX}

\* the record type; its zero value, and (*record)(nil)
ZeroRecord == [id |-> "", data |-> "", key |-> "", Content |-> ""]
NilRecord  == [nil |-> TRUE]

newRecord(id, data) == [ZeroRecord EXCEPT !.id = id, !.data = data]

(***************************************************************************)
(* The record index: block.add, block.get, block.delete, block.size        *)
(***************************************************************************)
\* newBlock: an empty, non-nil recs map
newBlockRecs == << >>

\* How a block struct came to be:
\*   newBlock : by newBlock(dataset): recs is an empty map, Dataset is nil
\*   literal  : as &block{Dataset: d, Name: n}: recs is a nil map
\*   attached : by newBlock, Dataset and Name assigned afterwards
\* A nil map reads as an empty one (recs is << >> then) and panics when
\* written; a method that reads b.Dataset panics when Dataset is nil.
BlockOrigins == {"newBlock", "literal", "attached"}
recsIsNil(b)    == origin[b] = "literal"
datasetIsNil(b) == origin[b] = "newBlock"

\* b.recs[key] = r
MapPut(m, k, r) == [x \in (DOMAIN m) \cup {k} |-> IF x = k THEN r ELSE m[x]]

\* delete(b.recs, key)
MapDelete(m, k) == [x \in (DOMAIN m) \ {k} |-> m[x]]

\* a mutant of add: an existing key keeps its record
addKeepsOld(m, key, value) ==
    IF key \in DOMAIN m THEN m ELSE MapPut(m, key, newRecord(key, value))

add(m, key, value) == MapPut(m, key, newRecord(key, value))

\* a mutant of get: an absent key yields an empty record and no error
getNoError(m, key) ==
    IF key \in DOMAIN m
    THEN [rec |-> m[key], err |-> NoErr]
    ELSE [rec |-> ZeroRecord, err |-> NoErr]

get(m, key) ==
    IF key \in DOMAIN m
    THEN [rec |-> m[key], err |-> NoErr]
    ELSE [rec |-> NilRecord, err |-> ErrNotFound]

\* a mutant of delete: reports success and removes nothing
deleteKeepsKey(m, key) ==
    IF key \in DOMAIN m
    THEN [recs |-> m, err |-> NoErr]
    ELSE [recs |-> m, err |-> ErrNotFound]

delete(m, key) ==
    IF key \in DOMAIN m
    THEN [recs |-> MapDelete(m, key), err |-> NoErr]
    ELSE [recs |-> m, err |-> ErrNotFound]

size(m) == Cardinality(DOMAIN m)

\* the most recent index write on a key: none yet, an add of a value, a delete
\* (over: the add replaced a record that was there)
NoWrite == [op |-> "none", value |-> "", over |-> FALSE]

\* add on a nil recs map panics at the assignment
Add(b, k, v) ==
    /\ ~crashed
    /\ crashed' = recsIsNil(b)
    /\ recs' = IF recsIsNil(b) THEN recs
               ELSE [recs EXCEPT ![b] = add(recs[b], k, v)]
    /\ hist' = IF recsIsNil(b) THEN hist
               ELSE [hist EXCEPT ![b][k] = [op |-> "add", value |-> v,
                                            over |-> k \in DOMAIN recs[b]]]
    /\ last' = [op |-> "add", block |-> b, key |-> k, value |-> v,
                had |-> k \in DOMAIN recs[b], size0 |-> size(recs[b]),
                panic |-> recsIsNil(b)]
    /\ UNCHANGED <<restVars, files, Records, hydrated, BadBlocks, BadRecords,
                   modVars>>

Get(b, k) ==
    /\ ~crashed
    /\ last' = [op |-> "get", block |-> b, key |-> k,
                rec |-> get(recs[b], k).rec, err |-> get(recs[b], k).err]
    /\ UNCHANGED <<restVars, idxVars, readVars, modVars>>

\* afterAdd: this delete directly follows an add of the same key on the same
\* block; addHad and addSize0 are then what that add saw before it ran
Delete(b, k) ==
    LET d == delete(recs[b], k)
        follows == last.op = "add" /\ last.block = b /\ last.key = k
    IN  /\ ~crashed
        /\ recs' = [recs EXCEPT ![b] = d.recs]
        /\ hist' = [hist EXCEPT ![b][k] = [op |-> "delete", value |-> "",
                                            over |-> FALSE]]
        /\ last' = [op |-> "delete", block |-> b, key |-> k, err |-> d.err,
                    afterAdd |-> follows,
                    addHad   |-> IF follows THEN last.had ELSE FALSE,
                    addSize0 |-> IF follows THEN last.size0 ELSE 0]
        /\ UNCHANGED <<restVars, readVars, modVars>>

Size(b) ==
    /\ ~crashed
    /\ last' = [op |-> "size", block |-> b, n |-> size(recs[b])]
    /\ UNCHANGED <<restVars, idxVars, readVars, modVars>>

(***************************************************************************)
(* Block files, JSON and the crypto collaborator                           *)
(***************************************************************************)
\* the Dataset every block of SpecRead belongs to
DbPath      == "/db"
DatasetName == "bookings"
cryptoKey   == "k1"

\* filepath.Join(b.Dataset.DbPath, b.Dataset.Name, b.Name+".json"), for
\* elements that are non-empty and already clean
blockFile(b) == DbPath \o "/" \o DatasetName \o "/" \o b \o ".json"

\* The content of a block file, by what json.Unmarshal into a
\* map[string]interface{} makes of its bytes:
\*   missing : there is no such file (ioutil.ReadFile fails)
\*   garbage : the bytes are not JSON
\*   array   : JSON, but an array at the top level, e.g. [1]
\*   null    : the JSON text null
\*   object  : a JSON object; each value is a string or another JSON value
StrEntry(s) == [type |-> "string", str |-> s]
NumEntry    == [type |-> "number", str |-> ""]

File(kind, entries) == [kind |-> kind, entries |-> entries]

FMissing   == File("missing", << >>)
FGarbage   == File("garbage", << >>)
FArray     == File("array", << >>)
FNull      == File("null", << >>)
FEmpty     == File("object", << >>)
FGood      == File("object", [a |-> StrEntry(TxtXY), b |-> StrEntry(TxtX)])
FEncBad    == File("object", [a |-> StrEntry(EncXY), b |-> StrEntry(TxtBad)])
FTwoBad    == File("object", [a |-> StrEntry(TxtX), b |-> StrEntry(TxtBad),
                              c |-> StrEntry(EncBad)])
FNumFirst  == File("object", [a |-> StrEntry(TxtNum), b |-> StrEntry(TxtBad)])
FNullEntry == File("object", [a |-> StrEntry(TxtNull), b |-> StrEntry(EncXY)])
FNumber    == File("object", [a |-> NumEntry])
FNumLater  == File("object", [a |-> StrEntry(TxtXY), b |-> NumEntry])

\* files for the table projection
FTable     == File("object", [a |-> StrEntry(TxtXY), b |-> StrEntry(TxtX),
                              c |-> StrEntry(TxtYX)])
FNarrow    == File("object", [a |-> StrEntry(TxtX), b |-> StrEntry(TxtXY)])
FLong      == File("object", [a |-> StrEntry(TxtLong), b |-> StrEntry(TxtNull)])

FileContents == {FMissing, FGarbage, FArray, FNull, FEmpty, FGood, FEncBad,
                 FTwoBad, FNumFirst, FNullEntry, FNumber, FNumLater}

\* json.Unmarshal(data, &dataBlock), dataBlock a nil map[string]interface{}:
\* null leaves the map nil and reports no error
unmarshalBlock(data) ==
    CASE data.kind = "object" -> [err |-> FALSE, dataBlock |-> data.entries]
      [] data.kind = "null"   -> [err |-> FALSE, dataBlock |-> << >>]
      [] OTHER                -> [err |-> TRUE,  dataBlock |-> << >>]

\* what kind of JSON text a string is
jsonKind(str) ==
    CASE str \in {TxtXY, TxtX, TxtYX, TxtLong} -> "object"
      [] str = TxtNull         -> "null"
      [] str = TxtNum          -> "number"
      [] OTHER                 -> "invalid"

\* json.Unmarshal([]byte(recordStr), &record), record a
\* map[string]interface{}: an object or null decodes, anything else is an error
unmarshalRecordFails(str) == jsonKind(str) \notin {"object", "null"}

\* json.Indent(&buf, []byte(recordStr), "", "\t")
indent(str) ==
    CASE str = TxtXY   -> [err |-> FALSE,
                           out |-> "{\n\t\"Data\": {\n\t\t\"x\": 1,\n\t\t\"y\": 2\n\t}\n}"]
      [] str = TxtX    -> [err |-> FALSE,
                           out |-> "{\n\t\"Data\": {\n\t\t\"x\": 3\n\t}\n}"]
      [] str = TxtYX   -> [err |-> FALSE,
                           out |-> "{\n\t\"Data\": {\n\t\t\"y\": 4,\n\t\t\"x\": 5\n\t}\n}"]
      [] str = TxtLong -> [err |-> FALSE,
                           out |-> "{\n\t\"Data\": {\n\t\t\"x\": \""
                                   \o LongValue \o "\"\n\t}\n}"]
      [] str = TxtNull -> [err |-> FALSE, out |-> "null"]
      [] str = TxtNum  -> [err |-> FALSE, out |-> "5"]
      [] OTHER         -> [err |-> TRUE,  out |-> ""]

\* the crypto collaborator decrypt(key, str): the plaintext of a ciphertext
\* made under that key, and the empty string for anything else
cryptoDecrypt(key, str) ==
    CASE key = cryptoKey /\ str = EncXY  -> TxtXY
      [] key = cryptoKey /\ str = EncBad -> TxtBad
      [] OTHER                           -> ""

\* a mutant of block.decrypt: an empty decryption is passed on
decryptNoFallback(str) == cryptoDecrypt(cryptoKey, str)

\* block.decrypt
decrypt(str) ==
    LET dec == cryptoDecrypt(cryptoKey, str)
    IN  IF dec # "" THEN dec ELSE str

\* sort.Strings compares byte-wise; the keys used here are single lower-case
\* letters
keyRank == [a |-> 97, b |-> 98, c |-> 99, x |-> 120, y |-> 121]
keyLess(x, y) == keyRank[x] < keyRank[y]

RECURSIVE sortStrings(_)
sortStrings(S) ==
    IF S = {} THEN << >>
    ELSE LET m == CHOOSE x \in S : \A y \in S \ {x} : keyLess(x, y)
         IN  <<m>> \o sortStrings(S \ {m})

\* a mutant of orderMapKeys: the keys in descending order
RECURSIVE sortStringsDesc(_)
sortStringsDesc(S) ==
    IF S = {} THEN << >>
    ELSE LET m == CHOOSE x \in S : \A y \in S \ {x} : keyLess(y, x)
         IN  <<m>> \o sortStringsDesc(S \ {m})

orderMapKeysDesc(m) == sortStringsDesc(DOMAIN m)

orderMapKeys(m) == sortStrings(DOMAIN m)

(***************************************************************************)
(* Hydration: readBlock, records, loadRecords, RecordCount                 *)
(***************************************************************************)
\* the errors of readBlock
NilError            == [type |-> "nil", blockFile |-> "", recordID |-> ""]
IOError             == [type |-> "io", blockFile |-> "", recordID |-> ""]
badBlockError(f)    == [type |-> "badBlock", blockFile |-> f, recordID |-> ""]
badRecordError(k)   == [type |-> "badRecord", blockFile |-> "", recordID |-> k]

\* the loop of readBlock over recordKeys[i..], result being what it has
\* appended so far; panic: the type assertion dataBlock[k].(string) failed
RECURSIVE readEntries(_, _, _, _)
readEntries(dataBlock, recordKeys, i, result) ==
    IF i > Len(recordKeys)
    THEN [result |-> result, err |-> NilError, panic |-> FALSE]
    ELSE LET k == recordKeys[i]
         IN  IF dataBlock[k].type # "string"
             THEN [result |-> result, err |-> NilError, panic |-> TRUE]
             ELSE LET recordStr == decrypt(dataBlock[k].str)
                  IN  IF unmarshalRecordFails(recordStr)
                      THEN [result |-> result, err |-> badRecordError(k),
                            panic |-> FALSE]
                      ELSE IF indent(recordStr).err
                      THEN [result |-> result, err |-> badRecordError(k),
                            panic |-> FALSE]
                      ELSE readEntries(dataBlock, recordKeys, i + 1,
                                       Append(result, indent(recordStr).out))

\* a mutant of readBlock: a file that does not decode is an empty block
readBlockNoBadBlock(b, data) ==
    IF data.kind = "missing"
    THEN [result |-> << >>, err |-> IOError, panic |-> FALSE]
    ELSE IF unmarshalBlock(data).err
    THEN [result |-> << >>, err |-> NilError, panic |-> FALSE]
    ELSE readEntries(unmarshalBlock(data).dataBlock,
                     orderMapKeys(unmarshalBlock(data).dataBlock), 1, << >>)

\* readBlock of block b, data being the content of its file
readBlock(b, data) ==
    IF data.kind = "missing"
    THEN [result |-> << >>, err |-> IOError, panic |-> FALSE]
    ELSE IF unmarshalBlock(data).err
    THEN [result |-> << >>, err |-> badBlockError(blockFile(b)),
          panic |-> FALSE]
    ELSE readEntries(unmarshalBlock(data).dataBlock,
                     orderMapKeys(unmarshalBlock(data).dataBlock), 1, << >>)

\* &record{Content: rec}
contentRecord(rec) == [ZeroRecord EXCEPT !.Content = rec]

\* a mutant of records: the Dataset's lists are not reset
recordsNoReset(b, data, badBlocks, badRecords) ==
    LET r == readBlock(b, data)
    IN  IF r.panic
        THEN [records |-> << >>, BadBlocks |-> badBlocks,
              BadRecords |-> badRecords, err |-> r.err, panic |-> TRUE]
        ELSE IF r.err.type # "nil"
        THEN [records    |-> << >>,
              BadBlocks  |-> IF r.err.type = "badBlock"
                             THEN Append(badBlocks, r.err.blockFile)
                             ELSE badBlocks,
              BadRecords |-> IF r.err.type = "badRecord"
                             THEN Append(badRecords, r.err.recordID)
                             ELSE badRecords,
              err |-> r.err, panic |-> FALSE]
        ELSE [records    |-> [i \in 1..Len(r.result) |->
                                  contentRecord(r.result[i])],
              BadBlocks  |-> badBlocks, BadRecords |-> badRecords,
              err |-> r.err, panic |-> FALSE]

\* records of block b: the records returned and the Dataset's two lists as
\* they are when it returns or panics (badBlocks and badRecords being the
\* lists before the call, which it resets first)
records(b, data, badBlocks, badRecords) ==
    LET r == readBlock(b, data)
    IN  IF r.panic
        THEN [records |-> << >>, BadBlocks |-> << >>, BadRecords |-> << >>,
              err |-> r.err, panic |-> TRUE]
        ELSE IF r.err.type # "nil"
        THEN [records    |-> << >>,
              BadBlocks  |-> IF r.err.type = "badBlock"
                             THEN Append(<< >>, r.err.blockFile)
                             ELSE << >>,
              BadRecords |-> IF r.err.type = "badBlock"
                             THEN << >>
                             ELSE IF r.err.type = "badRecord"
                             THEN Append(<< >>, r.err.recordID)
                             ELSE << >>,
              err |-> r.err, panic |-> FALSE]
        ELSE [records    |-> [i \in 1..Len(r.result) |->
                                  contentRecord(r.result[i])],
              BadBlocks  |-> << >>, BadRecords |-> << >>,
              err |-> r.err, panic |-> FALSE]

\* a mutant of the test of loadRecords: the file is never read
mustLoadNever(loaded) == FALSE

\* the test of loadRecords: len(b.Records) == 0
mustLoad(loaded) == Len(loaded) = 0

\* loadRecords of block b, whose Records are loaded and whose file holds
\* data: read says whether records() read the file; on a
\* block without Dataset records() panics at its first statement
loadRecordsOn(b, noDataset, loaded, data, badBlocks, badRecords) ==
    IF mustLoad(loaded) /\ noDataset
    THEN [Records |-> loaded, BadBlocks |-> badBlocks,
          BadRecords |-> badRecords, err |-> NilError, panic |-> TRUE,
          read |-> FALSE]
    ELSE IF mustLoad(loaded)
    THEN LET r == records(b, data, badBlocks, badRecords)
         IN  [Records |-> r.records, BadBlocks |-> r.BadBlocks,
              BadRecords |-> r.BadRecords, err |-> r.err, panic |-> r.panic,
              read |-> TRUE]
    ELSE [Records |-> loaded, BadBlocks |-> badBlocks,
          BadRecords |-> badRecords, err |-> NilError, panic |-> FALSE,
          read |-> FALSE]

\* loadRecords of block b in the current state
loadRecords(b) ==
    loadRecordsOn(b, datasetIsNil(b), Records[b], files[b], BadBlocks,
                  BadRecords)

\* what a hydrating call "op" on block b does to the state; a panic leaves
\* b.Records unassigned and ends the process
Hydrate(op, b) ==
    LET l == loadRecords(b)
    IN  /\ Records' = [Records EXCEPT ![b] = IF l.panic THEN @ ELSE l.Records]
        /\ BadBlocks' = l.BadBlocks
        /\ BadRecords' = l.BadRecords
        /\ crashed' = l.panic
        /\ hydrated' = [hydrated EXCEPT ![b] = TRUE]
        /\ last' = [op |-> op, block |-> b, read |-> l.read,
                    err |-> l.err, panic |-> l.panic,
                    out |-> IF l.panic THEN << >> ELSE l.Records,
                    n |-> IF l.panic THEN 0 ELSE Len(l.Records),
                    again |-> hydrated[b],
                    same |-> Records'[b] = Records[b],
                    dirty |-> Len(BadBlocks) + Len(BadRecords) > 0]
        /\ UNCHANGED <<restVars, files, idxVars, modVars>>

RecordCount(b) == ~crashed /\ Hydrate("RecordCount", b)

LoadRecords(b) == ~crashed /\ Hydrate("loadRecords", b)

\* a direct call of b.records(): b.Records is not assigned
ReadRecords(b) ==
    LET r == records(b, files[b], BadBlocks, BadRecords)
    IN  /\ ~crashed
        /\ ~datasetIsNil(b)
        /\ BadBlocks' = r.BadBlocks
        /\ BadRecords' = r.BadRecords
        /\ crashed' = r.panic
        /\ last' = [op |-> "records", block |-> b, read |-> TRUE,
                    err |-> r.err, panic |-> r.panic, out |-> r.records,
                    n |-> Len(r.records), again |-> hydrated[b],
                    same |-> TRUE,
                    dirty |-> Len(BadBlocks) + Len(BadRecords) > 0]
        /\ UNCHANGED <<restVars, files, Records, hydrated, idxVars, modVars>>

\* the backing store replaces the file of block b
WriteFile(b, data) ==
    /\ ~crashed
    /\ files' = [files EXCEPT ![b] = data]
    /\ last' = [op |-> "write", block |-> b]
    /\ UNCHANGED <<restVars, Records, hydrated, BadBlocks, BadRecords, crashed,
                   idxVars, modVars>>

(***************************************************************************)
(* The collection view: block.grecords                                     *)
(***************************************************************************)
\* the sort keys a caller injects
SortKeys == {"CreatedAt", "RoomId"}

\* the orders in which the records under the keys S can come out: the map is
\* walked in no fixed order and the records, all carrying the same sort key
\* by then, are sorted by the comparator of the collection type
Orders(S) ==
    {f \in [1..Cardinality(S) -> S] :
         \A i, j \in 1..Cardinality(S) : f[i] = f[j] => i = j}

\* a mutant of grecords: the sort key is set on copies of the records
grecordsOnCopies(m, key, order) ==
    [recs |-> m,
     records |-> [i \in 1..Len(order) |-> [m[order[i]] EXCEPT !.key = key]]]

\* block.grecords on an index m, order being the order the sort leaves:
\* the records returned are the indexed records themselves, the sort key set
grecords(m, key, order) ==
    [recs |-> [k \in DOMAIN m |-> [m[k] EXCEPT !.key = key]],
     records |-> [i \in 1..Len(order) |-> [m[order[i]] EXCEPT !.key = key]]]

GRecords(b, key) ==
    \E order \in Orders(DOMAIN recs[b]) :
        /\ ~crashed
        /\ recs' = [recs EXCEPT ![b] = grecords(recs[b], key, order).recs]
        /\ last' = [op |-> "grecords", block |-> b, key |-> key,
                    out |-> grecords(recs[b], key, order).records]
        /\ UNCHANGED <<restVars, hist, readVars, modVars>>

(***************************************************************************)
(* Serialization of the record index: MarshalJSON, UnmarshalJSON           *)
(***************************************************************************)
\* no bytes yet
NoBytes == ""

\* the i-th character of a string
Char(str, i) == SubSeq(str, i, i)

\* the body of a JSON string for a Go string of letters, digits, punctuation,
\* quotes and backslashes, as json.Marshal writes it: a quote and a backslash
\* get a backslash in front
RECURSIVE escape(_)
escape(str) ==
    IF str = "" THEN ""
    ELSE (IF Char(str, 1) \in {"\"", "\\"} THEN "\\" \o Char(str, 1)
          ELSE Char(str, 1))
             \o escape(SubSeq(str, 2, Len(str)))

quote(str) == "\"" \o escape(str) \o "\""

\* the members of a JSON object for the keys ks[i..] of raw, comma-separated
RECURSIVE members(_, _, _)
members(raw, ks, i) ==
    IF i > Len(ks) THEN ""
    ELSE quote(ks[i]) \o ":" \o quote(raw[ks[i]])
             \o (IF i < Len(ks) THEN "," ELSE "")
             \o members(raw, ks, i + 1)

\* json.Marshal of a map[string]string: an object, the keys sorted
jsonMarshal(raw) == "{" \o members(raw, sortStrings(DOMAIN raw), 1) \o "}"

\* block.MarshalJSON: raw[k] = v.data for every record of the index
MarshalJSON(m) == jsonMarshal([k \in DOMAIN m |-> m[k].data])

\* reading a JSON string of text whose opening quote is just before
\* position i: the Go string it stands for and the position after its closing
\* quote, or failure
RECURSIVE readString(_, _, _)
readString(text, i, acc) ==
    IF i > Len(text) THEN [ok |-> FALSE, str |-> "", next |-> i]
    ELSE IF Char(text, i) = "\"" THEN [ok |-> TRUE, str |-> acc, next |-> i + 1]
    ELSE IF Char(text, i) = "\\"
    THEN IF i + 1 <= Len(text) /\ Char(text, i + 1) \in {"\"", "\\"}
         THEN readString(text, i + 2, acc \o Char(text, i + 1))
         ELSE [ok |-> FALSE, str |-> "", next |-> i]
    ELSE readString(text, i + 1, acc \o Char(text, i))

\* reading the members of an object from position i of text on, raw being
\* the members read so far
RECURSIVE readMembers(_, _, _)
readMembers(text, i, raw) ==
    IF i > Len(text) \/ Char(text, i) # "\""
    THEN [err |-> TRUE, raw |-> << >>]
    ELSE LET k == readString(text, i + 1, "")
         IN  IF ~k.ok \/ k.next + 1 > Len(text)
                    \/ Char(text, k.next) # ":"
                    \/ Char(text, k.next + 1) # "\""
             THEN [err |-> TRUE, raw |-> << >>]
             ELSE LET v == readString(text, k.next + 2, "")
                      got == [j \in DOMAIN raw \cup {k.str} |->
                                  IF j = k.str THEN v.str ELSE raw[j]]
                  IN  IF ~v.ok \/ v.next > Len(text)
                      THEN [err |-> TRUE, raw |-> << >>]
                      ELSE IF Char(text, v.next) = "}" /\ v.next = Len(text)
                      THEN [err |-> FALSE, raw |-> got]
                      ELSE IF Char(text, v.next) = ","
                      THEN readMembers(text, v.next + 1, got)
                      ELSE [err |-> TRUE, raw |-> << >>]

\* json.Unmarshal(data, &raw), raw a nil map[string]string: an object of
\* strings decodes, null leaves raw nil, anything else is an error
jsonUnmarshal(data) ==
    IF data = "null" \/ data = "{}" THEN [err |-> FALSE, raw |-> << >>]
    ELSE IF Len(data) < 2 \/ Char(data, 1) # "{"
    THEN [err |-> TRUE, raw |-> << >>]
    ELSE readMembers(data, 2, << >>)

\* a mutant of block.UnmarshalJSON: the records keep the text as it is in the
\* bytes, escapes included
UnmarshalJSONRaw(m, data) ==
    LET r == jsonUnmarshal(data)
    IN  IF r.err THEN [recs |-> m, err |-> TRUE]
        ELSE [recs |-> [k \in DOMAIN m \cup DOMAIN r.raw |->
                           IF k \in DOMAIN r.raw
                           THEN newRecord(k, escape(r.raw[k])) ELSE m[k]],
              err |-> FALSE]

\* block.UnmarshalJSON on a block whose index is m: every member of the
\* object is put into the index, which keeps what else it holds
UnmarshalJSON(m, data) ==
    LET r == jsonUnmarshal(data)
    IN  IF r.err THEN [recs |-> m, err |-> TRUE]
        ELSE [recs |-> [k \in DOMAIN m \cup DOMAIN r.raw |->
                           IF k \in DOMAIN r.raw
                           THEN newRecord(k, r.raw[k]) ELSE m[k]],
              err |-> FALSE]

\* the bytes of block b are taken
Marshal(b) ==
    /\ ~crashed
    /\ wire' = MarshalJSON(recs[b])
    /\ last' = [op |-> "MarshalJSON", block |-> b,
                out |-> MarshalJSON(recs[b]), from |-> recs[b]]
    /\ UNCHANGED <<origin, blockSize, booking, stamped, idxVars, readVars,
                   modVars>>

\* bytes from elsewhere
SetBytes(data) ==
    /\ ~crashed
    /\ wire' = data
    /\ last' = [op |-> "bytes"]
    /\ UNCHANGED <<origin, blockSize, booking, stamped, idxVars, readVars,
                   modVars>>

\* block b is made anew by newBlock
NewBlock(b) ==
    /\ ~crashed
    /\ origin' = [origin EXCEPT ![b] = "newBlock"]
    /\ recs' = [recs EXCEPT ![b] = newBlockRecs]
    /\ hist' = [hist EXCEPT ![b] = [k \in Keys |-> NoWrite]]
    /\ last' = [op |-> "newBlock", block |-> b]
    /\ UNCHANGED <<blockSize, booking, stamped, wire, readVars, modVars>>

\* the bytes are decoded into block b; a write into a nil recs map panics
Unmarshal(b) ==
    LET u == UnmarshalJSON(recs[b], wire)
        panic == ~u.err /\ recsIsNil(b) /\ u.recs # recs[b]
    IN  /\ ~crashed
        /\ crashed' = panic
        /\ recs' = IF panic THEN recs ELSE [recs EXCEPT ![b] = u.recs]
        /\ hist' = IF panic \/ u.err THEN hist
                   ELSE [hist EXCEPT ![b] =
                            [k \in Keys |->
                                IF k \in DOMAIN jsonUnmarshal(wire).raw
                                THEN [op |-> "add", value |-> u.recs[k].data,
                                      over |-> k \in DOMAIN recs[b]]
                                ELSE @[k]]]
        /\ last' = [op |-> "UnmarshalJSON", block |-> b, data |-> wire,
                    err |-> u.err, panic |-> panic,
                    fresh |-> recs[b] = newBlockRecs]
        /\ UNCHANGED <<restVars, files, Records, hydrated, BadBlocks,
                       BadRecords, modVars>>

(***************************************************************************)
(* The table projection: block.table                                       *)
(***************************************************************************)
\* decoded JSON values: a number is a float64, a string a string
Num(n) == [type |-> "number", n |-> n, s |-> ""]
Str(s) == [type |-> "string", n |-> 0, s |-> s]
JsonValues == {Num(n) : n \in 1..5} \cup {Str(LongValue)}

\* a Go map: nil, or made and holding m
NilMap     == [nil |-> TRUE, m |-> << >>]
MakeMap(m) == [nil |-> FALSE, m |-> m]

\* the record texts whose decoding the table needs, and the document each one
\* is: an object with a Data object, or null
RecordTexts == {TxtXY, TxtX, TxtYX, TxtLong, TxtNull}

docOf(text) ==
    CASE text = TxtXY   -> [kind |-> "object",
                            Data |-> [x |-> Num(1), y |-> Num(2)]]
      [] text = TxtX    -> [kind |-> "object", Data |-> [x |-> Num(3)]]
      [] text = TxtYX   -> [kind |-> "object",
                            Data |-> [x |-> Num(5), y |-> Num(4)]]
      [] text = TxtLong -> [kind |-> "object",
                            Data |-> [x |-> Str(LongValue)]]
      [] OTHER          -> [kind |-> "null", Data |-> << >>]

\* the document a record's Content is: Content is the indented form of a
\* record text, and white space does not change what JSON text means
parseContent(content) ==
    IF \E t \in RecordTexts : indent(t).out = content
    THEN docOf(CHOOSE t \in RecordTexts : indent(t).out = content)
    ELSE [kind |-> "invalid", Data |-> << >>]

\* json.Unmarshal of a JSON object into a map: a nil map is allocated, a
\* non-nil map is reused and keeps the entries the object does not name
mergeMap(old, entries) ==
    MakeMap([k \in DOMAIN old.m \cup DOMAIN entries |->
                 IF k \in DOMAIN entries THEN entries[k] ELSE old.m[k]])

\* json.Unmarshal([]byte(record.Content), &rawV2), as far as rawV2.Data goes:
\* Data being the map before the call; null and a failed decoding leave it
unmarshalRawV2(content, Data) ==
    IF parseContent(content).kind = "object"
    THEN mergeMap(Data, parseContent(content).Data)
    ELSE Data

\* the text of a JSON value, as json.Marshal writes it
numText == <<"1", "2", "3", "4", "5">>
marshalValue(v) ==
    IF v.type = "number" THEN numText[v.n] ELSE "\"" \o v.s \o "\""

\* json.Marshal(rawV2.Data): null for a nil map, else an object
marshalMap(Data) ==
    IF Data.nil THEN [kind |-> "null", entries |-> << >>]
    ELSE [kind |-> "object",
          entries |-> [k \in DOMAIN Data.m |-> marshalValue(Data.m[k])]]

\* the value a marshalled text decodes to
unmarshalValue(text) == CHOOSE v \in JsonValues : marshalValue(v) = text

\* json.Unmarshal(b, &jsonMap), jsonMap being the map before the call
unmarshalMap(bytes, jsonMap) ==
    IF bytes.kind = "null" THEN jsonMap
    ELSE mergeMap(jsonMap, [k \in DOMAIN bytes.entries |->
                                unmarshalValue(bytes.entries[k])])

\* fmt.Sprintf("%v", v)
sprintV(v) == IF v.type = "number" THEN numText[v.n] ELSE v.s

\* the longest cell table() shows
MaxCell == 40

\* one cell: fmt.Sprintf("%v", jsonMap[key]) cut to MaxCell; a key the map
\* does not hold reads as a nil interface, which %v prints as <nil>
cell(jsonMap, key) ==
    LET val == IF key \in DOMAIN jsonMap.m THEN sprintV(jsonMap.m[key])
               ELSE "<nil>"
    IN  IF Len(val) > MaxCell THEN SubSeq(val, 1, MaxCell) ELSE val

\* the loop of table() from record i on; rawData and jsonMap are declared
\* before the loop and live across its iterations
RECURSIVE tableRows(_, _, _, _, _, _)
tableRows(Recs, i, rawData, jsonMap, Headers, Rows) ==
    IF i > Len(Recs) THEN [Headers |-> Headers, Rows |-> Rows]
    ELSE LET raw == unmarshalRawV2(Recs[i].Content, rawData)
             jm  == unmarshalMap(marshalMap(raw), jsonMap)
             hs  == IF i = 1 THEN orderMapKeys(jm.m) ELSE Headers
             row == [j \in 1..Len(hs) |-> cell(jm, hs[j])]
         IN  tableRows(Recs, i + 1, raw, jm, hs, Append(Rows, row))

\* table() over hydrated records
table(Recs) == tableRows(Recs, 1, NilMap, NilMap, << >>, << >>)

\* b.table(): hydrates, then projects
Table(b) ==
    LET l == loadRecords(b)
    IN  /\ ~crashed
        /\ Records' = [Records EXCEPT ![b] = IF l.panic THEN @ ELSE l.Records]
        /\ BadBlocks' = l.BadBlocks
        /\ BadRecords' = l.BadRecords
        /\ crashed' = l.panic
        /\ hydrated' = [hydrated EXCEPT ![b] = TRUE]
        /\ last' = [op |-> "table", block |-> b, read |-> l.read,
                    err |-> l.err, panic |-> l.panic,
                    out |-> IF l.panic THEN << >> ELSE l.Records,
                    n |-> IF l.panic THEN 0 ELSE Len(l.Records),
                    again |-> hydrated[b],
                    same |-> Records'[b] = Records[b],
                    dirty |-> Len(BadBlocks) + Len(BadRecords) > 0,
                    table |-> IF l.panic THEN table(<< >>)
                              ELSE table(l.Records)]
        /\ UNCHANGED <<restVars, files, idxVars, modVars>>

(***************************************************************************)
(* Byte sizes: formatBytes, HumanSize                                      *)
(***************************************************************************)
\* A uint64 is kept in two limbs, its value being hi * 2^20 + lo with
\* lo < 2^20, so that sizes of a terabyte and more can be told apart.
LimbBits == 20
Limb     == 2 ^ LimbBits
Bytes(hi, lo) == [hi |-> hi, lo |-> lo]

\* the units of formatBytes, largest first: sizeTb .. sizeByte are
\* 1 << (10 * iota), that is 2^bits
Units == << [name |-> "TB", bits |-> 40], [name |-> "GB", bits |-> 30],
            [name |-> "MB", bits |-> 20], [name |-> "KB", bits |-> 10],
            [name |-> "B",  bits |-> 0] >>

\* bytes >= 2^bits, for bits in Units
atLeast(bytes, bits) ==
    IF bits >= LimbBits THEN bytes.hi >= 2 ^ (bits - LimbBits)
    ELSE bytes.hi > 0 \/ bytes.lo >= 2 ^ bits

\* the first case of the switch that holds (0: none, bytes is 0)
unitOf(bytes) ==
    IF \E i \in 1..Len(Units) : atLeast(bytes, Units[i].bits)
    THEN CHOOSE i \in 1..Len(Units) :
             /\ atLeast(bytes, Units[i].bits)
             /\ \A j \in 1..(i - 1) : ~atLeast(bytes, Units[j].bits)
    ELSE 0

\* the number of binary digits of n
RECURSIVE bitLen(_)
bitLen(n) == IF n = 0 THEN 0 ELSE 1 + bitLen(n \div 2)

\* a float32 holds 24 significant binary digits
MantissaBits == 24

\* n / 2^d rounded to the nearest integer, a tie to the even one
roundHalfEven(n, d) ==
    LET q == n \div (2 ^ d)
        r == n % (2 ^ d)
    IN  IF d = 0 THEN n
        ELSE IF r > 2 ^ (d - 1) \/ (r = 2 ^ (d - 1) /\ q % 2 = 1) THEN q + 1
        ELSE q

\* float32(bytes): the value m * 2^e nearest to bytes with m of at most 24
\* binary digits, a tie going to the even m
float32(bytes) ==
    LET len == IF bytes.hi = 0 THEN bitLen(bytes.lo)
               ELSE LimbBits + bitLen(bytes.hi)
        s   == len - MantissaBits
    IN  IF s <= 0 THEN [m |-> (bytes.hi * Limb) + bytes.lo, e |-> 0]
        ELSE IF s <= LimbBits
        THEN LET q == (bytes.hi * (2 ^ (LimbBits - s))) + (bytes.lo \div (2 ^ s))
                 r == bytes.lo % (2 ^ s)
             IN  [m |-> IF r > 2 ^ (s - 1) \/ (r = 2 ^ (s - 1) /\ q % 2 = 1)
                        THEN q + 1 ELSE q,
                  e |-> s]
        ELSE LET q == bytes.hi \div (2 ^ (s - LimbBits))
                 r == ((bytes.hi % (2 ^ (s - LimbBits))) * Limb) + bytes.lo
             IN  [m |-> IF r > 2 ^ (s - 1) \/ (r = 2 ^ (s - 1) /\ q % 2 = 1)
                        THEN q + 1 ELSE q,
                  e |-> s]

\* value / sizeXx: dividing a float32 by a power of two is exact
divUnit(value, bits) == [m |-> value.m, e |-> value.e - bits]

\* decimal digits
Digit == <<"0", "1", "2", "3", "4", "5", "6", "7", "8", "9">>

RECURSIVE itoa(_)
itoa(n) == IF n < 10 THEN Digit[n + 1]
           ELSE itoa(n \div 10) \o Digit[(n % 10) + 1]

\* the number of tenths fmt.Sprintf("%.1f", value) shows: the exact value
\* rounded to one decimal, a tie to the even digit
tenthsOf(value) ==
    IF value.e >= 0 THEN 10 * value.m * (2 ^ value.e)
    ELSE roundHalfEven(10 * value.m, 0 - value.e)

\* strings.TrimSuffix(fmt.Sprintf("%.1f", value), ".0"), by the tenths
trimmed(tenths) ==
    IF tenths % 10 = 0 THEN itoa(tenths \div 10)
    ELSE itoa(tenths \div 10) \o "." \o Digit[(tenths % 10) + 1]

formatBytes(bytes) ==
    IF unitOf(bytes) = 0 THEN "0"
    ELSE trimmed(tenthsOf(divUnit(float32(bytes),
                                  Units[unitOf(bytes)].bits)))
             \o Units[unitOf(bytes)].name

FormatBytes(bytes) ==
    /\ last' = [op |-> "formatBytes", bytes |-> bytes,
                out |-> formatBytes(bytes)]
    /\ UNCHANGED <<restVars, idxVars, readVars, modVars>>

\* b.HumanSize(): formatBytes(uint64(b.Size))
HumanSize(b) ==
    /\ last' = [op |-> "HumanSize", block |-> b, bytes |-> blockSize[b],
                out |-> formatBytes(blockSize[b])]
    /\ UNCHANGED <<restVars, idxVars, readVars, modVars>>

(***************************************************************************)
(* The model envelope: wrap, Validate, BeforeInsert                        *)
(***************************************************************************)
\* the clock stops at MaxTime
MaxTime == 3

\* the current record version
RecVersion == "v2"

\* time.Time{}: the zero time, for which IsZero() holds
ZeroTime == 0

\* no envelope made yet
NoEnvelope == [nil |-> TRUE]

\* A domain model: a struct that embeds TimeStampedModel. Its BeforeInsert is
\* one of
\*   stamp         : the embedded TimeStampedModel.BeforeInsert
\*   stampThenFail : its own hook, which stamps and then returns insertErr
\*   fail          : its own hook, which returns insertErr and stamps nothing
\* and its Validate returns validateErr. IsLockable, ShouldEncrypt and
\* GetLockFileNames answer with its fields lockable, encrypt and locks.
LockNames == {<< >>, <<"lock_2024-03-01_r1">>}

ValidateErrors == {NoErr, "room is required", "check-out before check-in"}
InsertErrors   == {"id is taken", "dataset is read-only"}

DomainModels ==
    [CreatedAt : {ZeroTime}, UpdatedAt : {ZeroTime},
     hook : {"stamp"}, insertErr : {NoErr}, validateErr : ValidateErrors,
     lockable : BOOLEAN, encrypt : BOOLEAN, locks : LockNames]
    \cup
    [CreatedAt : {ZeroTime}, UpdatedAt : {ZeroTime},
     hook : {"stampThenFail", "fail"}, insertErr : InsertErrors,
     validateErr : {NoErr},
     lockable : BOOLEAN, encrypt : BOOLEAN, locks : LockNames]

\* a mutant of TimeStampedModel.BeforeInsert: CreatedAt is stamped every time
TimeStampedRestamps(d, stampTime) ==
    [data |-> [d EXCEPT !.CreatedAt = stampTime, !.UpdatedAt = stampTime],
     err |-> NoErr]

\* TimeStampedModel.BeforeInsert, stampTime being time.Now()
TimeStampedBeforeInsert(d, stampTime) ==
    [data |-> [d EXCEPT !.CreatedAt = IF d.CreatedAt = ZeroTime
                                        THEN stampTime ELSE @,
                        !.UpdatedAt = stampTime],
     err |-> NoErr]

\* Model.BeforeInsert of the domain model
DataBeforeInsert(d, t) ==
    CASE d.hook = "stamp" -> TimeStampedBeforeInsert(d, t)
      [] d.hook = "stampThenFail" ->
             [data |-> TimeStampedBeforeInsert(d, t).data, err |-> d.insertErr]
      [] d.hook = "fail" -> [data |-> d, err |-> d.insertErr]

\* Model.Validate of the domain model
DataValidate(d) == [data |-> d, err |-> d.validateErr]

\* Model.GetSchema().indexes of the domain model: the index mapping its
\* schema declares, over the current values of the indexed fields
DataSchemaIndexes(d) ==
    [CreatedAt |-> d.CreatedAt, UpdatedAt |-> d.UpdatedAt]

\* Model.GetSchema of the domain model: a schema over its current fields
DataGetSchema(d) == [name |-> "Booking", indexes |-> DataSchemaIndexes(d)]

\* Model.IsLockable, Model.ShouldEncrypt, Model.GetLockFileNames of the
\* domain model
DataIsLockable(d)       == d.lockable
DataShouldEncrypt(d)    == d.encrypt
DataGetLockFileNames(d) == d.locks

\* a nil map[string]interface{}
NilIndexes == << >>

wrap(d) == [Version |-> RecVersion, Indexes |-> NilIndexes, Data |-> d]

\* model.GetSchema, model.IsLockable, model.ShouldEncrypt,
\* model.GetLockFileNames
modelGetSchema(m)        == DataGetSchema(m.Data)
modelIsLockable(m)       == DataIsLockable(m.Data)
modelShouldEncrypt(m)    == DataShouldEncrypt(m.Data)
modelGetLockFileNames(m) == DataGetLockFileNames(m.Data)

\* model.GetSchema().indexes
modelSchemaIndexes(m) == modelGetSchema(m).indexes

\* a mutant of model.Validate: it refreshes the indexes as BeforeInsert does
modelValidateRefreshes(m) ==
    [m |-> [m EXCEPT !.Data = DataValidate(m.Data).data,
                     !.Indexes = DataSchemaIndexes(DataValidate(m.Data).data)],
     err |-> DataValidate(m.Data).err]

\* model.Validate
modelValidate(m) ==
    [m |-> [m EXCEPT !.Data = DataValidate(m.Data).data],
     err |-> DataValidate(m.Data).err]

\* a mutant of model.BeforeInsert: the indexes are captured before the hook
modelBeforeInsertStale(m, t) ==
    [m |-> [m EXCEPT !.Data = DataBeforeInsert(m.Data, t).data,
                     !.Indexes = modelSchemaIndexes(m)],
     err |-> DataBeforeInsert(m.Data, t).err]

\* a mutant of model.BeforeInsert: the hook's error is dropped
modelBeforeInsertNoErr(m, t) ==
    [m |-> [m EXCEPT !.Data = DataBeforeInsert(m.Data, t).data,
                     !.Indexes = DataSchemaIndexes(
                                     DataBeforeInsert(m.Data, t).data)],
     err |-> NoErr]

\* model.BeforeInsert: err := m.Data.BeforeInsert(); then the indexes of the
\* schema of m.Data as it is now; return err
modelBeforeInsert(m, t) ==
    [m |-> [m EXCEPT !.Data = DataBeforeInsert(m.Data, t).data,
                     !.Indexes = modelSchemaIndexes(
                                     [m EXCEPT !.Data =
                                         DataBeforeInsert(m.Data, t).data])],
     err |-> DataBeforeInsert(m.Data, t).err]

Wrap(d) ==
    /\ envelope' = wrap(d)
    /\ last' = [op |-> "wrap", arg |-> d]
    /\ UNCHANGED <<restVars, now, idxVars, readVars>>

EnvValidate ==
    /\ envelope # NoEnvelope
    /\ envelope' = modelValidate(envelope).m
    /\ last' = [op |-> "Validate", err |-> modelValidate(envelope).err]
    /\ UNCHANGED <<restVars, now, idxVars, readVars>>

\* at: the time the hook read; created0: CreatedAt before the call;
\* again: BeforeInsert had run on this envelope before
EnvBeforeInsert ==
    /\ envelope # NoEnvelope
    /\ envelope' = modelBeforeInsert(envelope, now).m
    /\ last' = [op |-> "BeforeInsert",
                err |-> modelBeforeInsert(envelope, now).err,
                at |-> now, created0 |-> envelope.Data.CreatedAt,
                again |-> envelope.Indexes # NilIndexes]
    /\ UNCHANGED <<restVars, now, idxVars, readVars>>

\* the delegations that only answer: op names the method, ret is its result
EnvAnswer(op, ret) ==
    /\ envelope # NoEnvelope
    /\ last' = [op |-> op, ret |-> ret]
    /\ UNCHANGED <<restVars, envelope, now, idxVars, readVars>>

EnvGetSchema        == EnvAnswer("GetSchema", modelGetSchema(envelope))
EnvIsLockable       == EnvAnswer("IsLockable", modelIsLockable(envelope))
EnvShouldEncrypt    == EnvAnswer("ShouldEncrypt", modelShouldEncrypt(envelope))
EnvGetLockFileNames ==
    EnvAnswer("GetLockFileNames", modelGetLockFileNames(envelope))

\* time passes
Tick ==
    /\ now < MaxTime
    /\ now' = now + 1
    /\ last' = [op |-> "tick"]
    /\ UNCHANGED <<restVars, envelope, idxVars, readVars>>

(***************************************************************************)
(* The booking example and time stamps                                     *)
(***************************************************************************)
\* a time.Time of the booking calendar: a day and an hour of that day, all in
\* one location; day 0 is the day of the zero time
At(day, hour) == [day |-> day, hour |-> hour]

\* time.Time{}: January 1 of year 1, 00:00
ZeroDate == At(0, 0)

\* t.Format("2006-01-02"): the calendar day, the time of day left out
dayText == <<"2024-03-01", "2024-03-02", "2024-03-03">>
Format(t) == IF t.day = ZeroDate.day THEN "0001-01-01" ELSE dayText[t.day]

Instances == {"i1", "i2"}

\* the fields of a BookingModel: those of its BookingDefinition that the
\* methods read, and the time stamps of the model it extends
Booking(in, out, room) ==
    [CheckInDate |-> in, CheckOutDate |-> out, RoomId |-> room,
     CreatedAt |-> ZeroTime, UpdatedAt |-> ZeroTime]

\* NewBookingModel: &BookingModel{}, every field at its zero value
NewBooking == Booking(ZeroDate, ZeroDate, "")

\* booking instances: one as NewBookingModel returns it, the others with
\* the fields of their definition assigned
Bookings ==
    { NewBooking, Booking(At(1, 14), At(2, 10), "r1"),
      Booking(At(1, 14), At(3, 10), "r1"), Booking(At(1, 18), At(2, 10), "r1"),
      Booking(At(2, 14), At(3, 10), "r1"), Booking(At(1, 14), At(2, 10), "r2") }

\* a mutant of GetLockFileNames: the room is left out of the name
GetLockFileNamesNoRoom(b) ==
    Append(<< >>, "lock_" \o Format(b.CheckInDate) \o "_")

\* BookingModel.GetLockFileNames
GetLockFileNames(b) ==
    Append(<< >>, "lock_" \o Format(b.CheckInDate) \o "_" \o b.RoomId)

\* GetCreatedDate, StampCreatedDate and StampUpdatedDate of the model a
\* BookingModel extends: the create-timestamp, and setting one timestamp to
\* time.Now(), t being what the clock shows then
GetCreatedDate(b)      == b.CreatedAt
StampCreatedDate(b, t) == [b EXCEPT !.CreatedAt = t]
StampUpdatedDate(b, t) == [b EXCEPT !.UpdatedAt = t]

\* BookingModel.Validate: t1 and t2 are the clock at the two stampings
Validate(b, t1, t2) ==
    [data |-> StampUpdatedDate(IF GetCreatedDate(b) = ZeroTime
                               THEN StampCreatedDate(b, t1) ELSE b, t2),
     ok |-> TRUE]

\* a fresh TimeStampedModel
NewStamped == [CreatedAt |-> ZeroTime, UpdatedAt |-> ZeroTime]

BookingGetLockFileNames(i) ==
    /\ last' = [op |-> "booking.GetLockFileNames", inst |-> i,
                names |-> GetLockFileNames(booking[i])]
    /\ UNCHANGED <<origin, blockSize, booking, stamped, wire, idxVars, readVars,
                   modVars>>

\* the clock may move on while Validate runs
BookingValidate(i) ==
    \E t1 \in now..MaxTime : \E t2 \in t1..MaxTime :
        /\ booking' = [booking EXCEPT ![i] = Validate(@, t1, t2).data]
        /\ now' = t2
        /\ last' = [op |-> "booking.Validate", inst |-> i,
                    ok |-> Validate(booking[i], t1, t2).ok,
                    t1 |-> t1, t2 |-> t2, before |-> booking[i]]
        /\ UNCHANGED <<origin, blockSize, stamped, wire, idxVars, readVars,
                       envelope>>

\* BeforeInsert on the TimeStampedModel
StampedBeforeInsert ==
    /\ stamped' = TimeStampedBeforeInsert(stamped, now).data
    /\ last' = [op |-> "stamped.BeforeInsert", inst |-> "stamped",
                err |-> TimeStampedBeforeInsert(stamped, now).err,
                t1 |-> now, t2 |-> now, before |-> stamped]
    /\ UNCHANGED <<origin, blockSize, booking, wire, idxVars, readVars, modVars>>

(***************************************************************************)
(* Specifications                                                          *)
(***************************************************************************)
NoCall == [op |-> "none"]

InitIndex ==
    /\ origin = [b \in Blocks |-> "newBlock"]
    /\ blockSize = [b \in Blocks |-> Bytes(0, 0)]
    /\ booking = [i \in Instances |-> NewBooking]
    /\ stamped = NewStamped
    /\ wire = NoBytes
    /\ recs = [b \in Blocks |-> newBlockRecs]
    /\ hist = [b \in Blocks |-> [k \in Keys |-> NoWrite]]
    /\ files = [b \in Blocks |-> FMissing]
    /\ Records = [b \in Blocks |-> << >>]
    /\ hydrated = [b \in Blocks |-> FALSE]
    /\ BadBlocks = << >>
    /\ BadRecords = << >>
    /\ crashed = FALSE
    /\ envelope = NoEnvelope
    /\ now = 1
    /\ last = NoCall

NextIndex ==
    \/ \E b \in Blocks, k \in Keys, v \in Values : Add(b, k, v)
    \/ \E b \in Blocks, k \in Keys : Get(b, k)
    \/ \E b \in Blocks, k \in Keys : Delete(b, k)
    \/ \E b \in Blocks : Size(b)

SpecIndex == InitIndex /\ [][NextIndex]_vars

\* blocks of the Dataset, not hydrated yet, over any files
InitRead ==
    /\ origin = [b \in Blocks |-> "literal"]
    /\ blockSize = [b \in Blocks |-> Bytes(0, 0)]
    /\ booking = [i \in Instances |-> NewBooking]
    /\ stamped = NewStamped
    /\ wire = NoBytes
    /\ recs = [b \in Blocks |-> newBlockRecs]
    /\ hist = [b \in Blocks |-> [k \in Keys |-> NoWrite]]
    /\ files \in [Blocks -> FileContents]
    /\ Records = [b \in Blocks |-> << >>]
    /\ hydrated = [b \in Blocks |-> FALSE]
    /\ BadBlocks = << >>
    /\ BadRecords = << >>
    /\ crashed = FALSE
    /\ envelope = NoEnvelope
    /\ now = 1
    /\ last = NoCall

NextRead ==
    \/ \E b \in Blocks : RecordCount(b)
    \/ \E b \in Blocks : LoadRecords(b)
    \/ \E b \in Blocks : ReadRecords(b)
    \/ \E b \in Blocks, data \in FileContents : WriteFile(b, data)

SpecRead == InitRead /\ [][NextRead]_vars

\* blocks of the Dataset over files that hydrate, for the table projection
TableFiles == {FTable, FNarrow, FLong, FNullEntry, FGarbage}

InitTable ==
    /\ origin = [b \in Blocks |-> "literal"]
    /\ blockSize = [b \in Blocks |-> Bytes(0, 0)]
    /\ booking = [i \in Instances |-> NewBooking]
    /\ stamped = NewStamped
    /\ wire = NoBytes
    /\ recs = [b \in Blocks |-> newBlockRecs]
    /\ hist = [b \in Blocks |-> [k \in Keys |-> NoWrite]]
    /\ files \in [Blocks -> TableFiles]
    /\ Records = [b \in Blocks |-> << >>]
    /\ hydrated = [b \in Blocks |-> FALSE]
    /\ BadBlocks = << >>
    /\ BadRecords = << >>
    /\ crashed = FALSE
    /\ envelope = NoEnvelope
    /\ now = 1
    /\ last = NoCall

NextTable ==
    \/ \E b \in Blocks : Table(b)
    \/ \E b \in Blocks : LoadRecords(b)
    \/ \E b \in Blocks, data \in TableFiles : WriteFile(b, data)

SpecTable == InitTable /\ [][NextTable]_vars

\* one block used through both of its faces, the record index and the
\* hydrated view, however it was made and whatever its file holds
BlockUnderTest == "b1"
BlockFiles == {FGood, FTable, FGarbage, FNumLater}

InitBlock ==
    /\ origin \in [Blocks -> BlockOrigins]
    /\ origin["b2"] = "attached"
    /\ blockSize = [b \in Blocks |-> Bytes(0, 0)]
    /\ booking = [i \in Instances |-> NewBooking]
    /\ stamped = NewStamped
    /\ wire = NoBytes
    /\ recs = [b \in Blocks |-> newBlockRecs]
    /\ hist = [b \in Blocks |-> [k \in Keys |-> NoWrite]]
    /\ files \in [Blocks -> BlockFiles]
    /\ files["b2"] = FGood
    /\ Records = [b \in Blocks |-> << >>]
    /\ hydrated = [b \in Blocks |-> FALSE]
    /\ BadBlocks = << >>
    /\ BadRecords = << >>
    /\ crashed = FALSE
    /\ envelope = NoEnvelope
    /\ now = 1
    /\ last = NoCall

NextBlock ==
    \/ \E k \in Keys, v \in Values : Add(BlockUnderTest, k, v)
    \/ \E k \in Keys : Delete(BlockUnderTest, k)
    \/ Size(BlockUnderTest)
    \/ RecordCount(BlockUnderTest)
    \/ LoadRecords(BlockUnderTest)
    \/ Table(BlockUnderTest)

SpecBlock == InitBlock /\ [][NextBlock]_vars

\* byte sizes: every size up to MaxSmallSize, every seventh size from 1000
\* on, and sizes around the units, of more than 24 binary digits and of a
\* terabyte and more
MaxSmallSize == 200
SampleSizes ==
    { Bytes(0, 1024), Bytes(0, 1536), Bytes(0, Limb - 1), Bytes(1, 0),
      Bytes(1, 524288), Bytes(15, Limb - 1),
      Bytes(16, 0), Bytes(16, 1), Bytes(16, 52428), Bytes(16, 52429),
      Bytes(16, 261121), Bytes(1023, Limb - 1), Bytes(1024, 0),
      Bytes(1075, 209715), Bytes(1075, 209716), Bytes(1536, 0),
      Bytes(Limb - 1, Limb - 1), Bytes(Limb, 0), Bytes(Limb + 98304, 0),
      Bytes((5 * Limb) + 262144, 1) }
ByteSizes ==
    {Bytes(0, n) : n \in 0..MaxSmallSize}
        \cup {Bytes(0, 1000 + (7 * n)) : n \in 0..MaxSmallSize}
        \cup SampleSizes
BlockSizes == {Bytes(0, 0), Bytes(0, 1536), Bytes(16, 52429), Bytes(1024, 0),
               Bytes(Limb, 0)}

InitFormat ==
    /\ origin = [b \in Blocks |-> "literal"]
    /\ blockSize \in [Blocks -> BlockSizes]
    /\ blockSize["b2"] = Bytes(0, 0)
    /\ booking = [i \in Instances |-> NewBooking]
    /\ stamped = NewStamped
    /\ wire = NoBytes
    /\ recs = [b \in Blocks |-> newBlockRecs]
    /\ hist = [b \in Blocks |-> [k \in Keys |-> NoWrite]]
    /\ files = [b \in Blocks |-> FMissing]
    /\ Records = [b \in Blocks |-> << >>]
    /\ hydrated = [b \in Blocks |-> FALSE]
    /\ BadBlocks = << >>
    /\ BadRecords = << >>
    /\ crashed = FALSE
    /\ envelope = NoEnvelope
    /\ now = 1
    /\ last = NoCall

NextFormat ==
    \/ \E bytes \in ByteSizes : FormatBytes(bytes)
    \/ \E b \in Blocks : HumanSize(b)

SpecFormat == InitFormat /\ [][NextFormat]_vars

\* a block b1 that is written to and serialized, and a block b2 that its
\* bytes (or bytes from elsewhere) are decoded into
SourceBlock == "b1"
TargetBlock == "b2"
TxtPath == "C:\\dir"
WireValues == {TxtX, TxtPath}
OtherBytes == {"null", "{\"a\":1}", "{\"a\":\"x\""}

InitCodec ==
    /\ origin \in [Blocks -> {"newBlock", "literal"}]
    /\ origin[SourceBlock] = "newBlock"
    /\ blockSize = [b \in Blocks |-> Bytes(0, 0)]
    /\ booking = [i \in Instances |-> NewBooking]
    /\ stamped = NewStamped
    /\ wire = NoBytes
    /\ recs = [b \in Blocks |-> newBlockRecs]
    /\ hist = [b \in Blocks |-> [k \in Keys |-> NoWrite]]
    /\ files = [b \in Blocks |-> FMissing]
    /\ Records = [b \in Blocks |-> << >>]
    /\ hydrated = [b \in Blocks |-> FALSE]
    /\ BadBlocks = << >>
    /\ BadRecords = << >>
    /\ crashed = FALSE
    /\ envelope = NoEnvelope
    /\ now = 1
    /\ last = NoCall

NextCodec ==
    \/ \E k \in Keys, v \in WireValues : Add(SourceBlock, k, v)
    \/ \E k \in Keys : Delete(SourceBlock, k)
    \/ Marshal(SourceBlock)
    \/ \E data \in OtherBytes : SetBytes(data)
    \/ NewBlock(TargetBlock)
    \/ Unmarshal(TargetBlock)
    \/ \E k \in Keys : Get(TargetBlock, k)
    \/ Size(TargetBlock)

SpecCodec == InitCodec /\ [][NextCodec]_vars

\* one block fresh from newBlock, written to and viewed as a collection
InitCollection == InitIndex

NextCollection ==
    \/ \E k \in Keys, v \in Values : Add(BlockUnderTest, k, v)
    \/ \E k \in Keys : Delete(BlockUnderTest, k)
    \/ \E k \in Keys : Get(BlockUnderTest, k)
    \/ Size(BlockUnderTest)
    \/ \E key \in SortKeys : GRecords(BlockUnderTest, key)

SpecCollection == InitCollection /\ [][NextCollection]_vars

\* two bookings, each as NewBookingModel returns it or with its fields
\* assigned, and a TimeStampedModel, none of them stamped yet
InitBooking ==
    /\ origin = [b \in Blocks |-> "newBlock"]
    /\ blockSize = [b \in Blocks |-> Bytes(0, 0)]
    /\ booking \in [Instances -> Bookings]
    /\ stamped = NewStamped
    /\ wire = NoBytes
    /\ recs = [b \in Blocks |-> newBlockRecs]
    /\ hist = [b \in Blocks |-> [k \in Keys |-> NoWrite]]
    /\ files = [b \in Blocks |-> FMissing]
    /\ Records = [b \in Blocks |-> << >>]
    /\ hydrated = [b \in Blocks |-> FALSE]
    /\ BadBlocks = << >>
    /\ BadRecords = << >>
    /\ crashed = FALSE
    /\ envelope = NoEnvelope
    /\ now = 1
    /\ last = NoCall

NextBooking ==
    \/ \E i \in Instances : BookingGetLockFileNames(i)
    \/ \E i \in Instances : BookingValidate(i)
    \/ StampedBeforeInsert
    \/ Tick

SpecBooking == InitBooking /\ [][NextBooking]_vars

\* the envelope: nothing wrapped yet
InitModel == InitIndex

NextModel ==
    \/ \E d \in DomainModels : Wrap(d)
    \/ EnvValidate
    \/ EnvBeforeInsert
    \/ EnvGetSchema
    \/ EnvIsLockable
    \/ EnvShouldEncrypt
    \/ EnvGetLockFileNames
    \/ Tick

SpecModel == InitModel /\ [][NextModel]_vars

(***************************************************************************)
(* Claims about the record index (checked under SpecIndex)                 *)
(***************************************************************************)

\* C1: the record index is a last-write-wins map: get(k) succeeds exactly
\* when the most recent write on k was an add(k, v), and the record it
\* returns then holds that v, for every key at once (so that an add of one
\* key never changes what another key yields); a get call reported exactly
\* that.
C1_LastWriteWins ==
    \A b \in Blocks, k \in Keys :
        /\ (get(recs[b], k).err = NoErr) <=> (hist[b][k].op = "add")
        /\ hist[b][k].op = "add" =>
               /\ get(recs[b], k).rec # NilRecord
               /\ get(recs[b], k).rec.data = hist[b][k].value
        /\ (last.op = "get" /\ last.block = b /\ last.key = k) =>
               /\ (last.err = NoErr) <=> (hist[b][k].op = "add")
               /\ hist[b][k].op = "add" =>
                      /\ last.rec # NilRecord
                      /\ last.rec.data = hist[b][k].value

\* a get returned the value of a re-added key while the other key, once
\* written, is deleted
C1_Witness ==
    /\ last.op = "get" /\ last.block = "b1" /\ last.key = "a"
    /\ last.err = NoErr /\ last.rec.data = TxtX
    /\ hist["b1"]["a"].over
    /\ hist["b1"]["b"].op = "delete"

\* C2: get(k) and delete(k) of a key that is not in the index fail with the
\* not-found error, return no record, and leave the index as it was.
C2_AbsentKeyFails ==
    [][\A b \in Blocks, k \in Keys :
         ( /\ k \notin DOMAIN recs[b]
           /\ last'.op \in {"get", "delete"}
           /\ last'.block = b /\ last'.key = k )
         => /\ last'.err = ErrNotFound
            /\ last'.op = "get" => last'.rec = NilRecord
            /\ recs' = recs
            /\ \A c \in Blocks : size(recs'[c]) = size(recs[c])]_vars

\* a delete of an absent key failed on a block that holds the other key
C2_Witness ==
    /\ last.op = "delete" /\ last.err = ErrNotFound
    /\ last.key \notin DOMAIN recs[last.block]
    /\ size(recs[last.block]) = 1

\* C3 as stated: size() after add(k, v) directly followed by delete(k) is
\* size() before the add.
C3_SizeRestored ==
    (last.op = "delete" /\ last.afterAdd) =>
        size(recs[last.block]) = last.addSize0

\* C3 as amended: it is size() before the add when k was not in the index
\* before the add, and one less when k was already there.
C3_SizeRestoredIfFresh ==
    (last.op = "delete" /\ last.afterAdd) =>
        /\ last.err = NoErr
        /\ size(recs[last.block]) =
               IF last.addHad THEN last.addSize0 - 1 ELSE last.addSize0

\* a fresh key was added to a non-empty index and then deleted
C3_Witness ==
    /\ last.op = "delete" /\ last.afterAdd /\ ~last.addHad
    /\ last.addSize0 = 1
    /\ size(recs[last.block]) = 1

(***************************************************************************)
(* Claims about hydration and the Dataset's diagnostics (under SpecRead)   *)
(***************************************************************************)
\* the calls that hydrate a block, and the calls that read its file
HydratingOps == {"RecordCount", "loadRecords"}
IsHydration  == last.op \in HydratingOps
IsRead       == last.op \in HydratingOps \cup {"records"} /\ last.read

\* <root>/<dataset>/<block>.json
PathOf(b) ==
    CASE b = "b1" -> "/db/bookings/b1.json"
      [] b = "b2" -> "/db/bookings/b2.json"

\* C4: once a hydrating call has run on a block, a later hydrating call on it
\* reads no file and leaves the block's Records as they were.
C4_HydratesOnce ==
    (IsHydration /\ last.again) => (~last.read /\ last.same)

\* C5 as stated: after a block read that returned, both lists are empty when
\* the read succeeded and hold exactly one entry in total when it did not.
C5_OneEntryUnlessSuccess ==
    (IsRead /\ ~last.panic) =>
        /\ last.err.type = "nil" => (BadBlocks = << >> /\ BadRecords = << >>)
        /\ last.err.type # "nil" => Len(BadBlocks) + Len(BadRecords) = 1

\* C5 as amended: after a block read the two lists describe that read only:
\* they are both empty when the read succeeded, when the file could not be
\* read, and when the read ended in a panic; they hold exactly the path of
\* the block read for a bad block, and exactly the key of one entry of that
\* block's file for a bad record.
C5_ListsDescribeLastRead ==
    IsRead =>
        /\ (last.panic \/ last.err.type \in {"nil", "io"}) =>
               (BadBlocks = << >> /\ BadRecords = << >>)
        /\ (~last.panic /\ last.err.type = "badBlock") =>
               (BadBlocks = <<PathOf(last.block)>> /\ BadRecords = << >>)
        /\ (~last.panic /\ last.err.type = "badRecord") =>
               /\ BadBlocks = << >>
               /\ Len(BadRecords) = 1
               /\ BadRecords[1] \in DOMAIN files[last.block].entries
        /\ (last.err.type = "io") <=> (files[last.block].kind = "missing")

\* a read of a missing file emptied lists that an earlier read had filled
C5_Witness ==
    /\ IsRead /\ last.dirty
    /\ last.err.type = "io"
    /\ BadBlocks = << >> /\ BadRecords = << >>

\* C6: reading a block whose file is not JSON puts the file's path, and only
\* it, in BadBlocks, leaves BadRecords empty and returns no records.
C6_GarbageIsBadBlock ==
    (IsRead /\ files[last.block].kind = "garbage") =>
        /\ ~last.panic
        /\ BadBlocks = <<PathOf(last.block)>>
        /\ BadRecords = << >>
        /\ last.out = << >>

\* block b2's file was not JSON and its read replaced what was recorded
C6_Witness ==
    /\ IsRead /\ last.block = "b2" /\ last.dirty
    /\ files["b2"] = FGarbage
    /\ BadBlocks = <<"/db/bookings/b2.json">>

\* a file that is a JSON object of strings
IsStringMap(data) ==
    /\ data.kind = "object"
    /\ \A k \in DOMAIN data.entries : data.entries[k].type = "string"

\* the first key, in key order, of the entries of data that satisfy Bad
FirstKey(data, Bad(_)) ==
    CHOOSE k \in DOMAIN data.entries :
        /\ Bad(data.entries[k].str)
        /\ \A j \in DOMAIN data.entries \ {k} :
               Bad(data.entries[j].str) => keyLess(k, j)

NotJson(str)   == jsonKind(decrypt(str)) = "invalid"
NotRecord(str) == jsonKind(decrypt(str)) \notin {"object", "null"}

\* C7 as stated: when some entry's decrypted text is not valid JSON, the read
\* records exactly the key of the first such entry in BadRecords, leaves
\* BadBlocks empty and yields no records.
C7_FirstInvalidJson ==
    LET data == files[last.block]
    IN  ( /\ IsRead /\ IsStringMap(data)
          /\ \E k \in DOMAIN data.entries : NotJson(data.entries[k].str) )
        => /\ BadRecords = <<FirstKey(data, NotJson)>>
           /\ BadBlocks = << >>
           /\ last.out = << >>

\* C7 as amended: the key recorded is that of the first entry, in key order,
\* whose decrypted text does not decode into a record: text that is not JSON,
\* or JSON whose value is neither an object nor null.
C7_FirstUndecodable ==
    LET data == files[last.block]
    IN  ( /\ IsRead /\ IsStringMap(data)
          /\ \E k \in DOMAIN data.entries : NotRecord(data.entries[k].str) )
        => /\ ~last.panic
           /\ BadRecords = <<FirstKey(data, NotRecord)>>
           /\ BadBlocks = << >>
           /\ last.out = << >>

\* entry a was valid, b and c were not: b is recorded and nothing is returned
C7_Witness ==
    /\ IsRead /\ files[last.block] = FTwoBad
    /\ BadRecords = <<"b">> /\ BadBlocks = << >>
    /\ last.out = << >>

\* a file whose content is not a mapping from keys to strings: not JSON, an
\* array, or an object with a value that is not a string
NotStringMap(data) ==
    \/ data.kind \in {"garbage", "array"}
    \/ /\ data.kind = "object"
       /\ \E k \in DOMAIN data.entries : data.entries[k].type # "string"

\* C8: no read ends in a panic, and a file that is not a mapping from keys to
\* strings is reported as a bad block: its path in BadBlocks, no records.
C8_NeverCrashes ==
    /\ ~crashed
    /\ (IsRead /\ NotStringMap(files[last.block])) =>
           /\ BadBlocks = <<PathOf(last.block)>>
           /\ last.out = << >>

(***************************************************************************)
(* Claims about the envelope (checked under SpecModel)                     *)
(***************************************************************************)
\* the domain model's hook stamps its timestamps
Stamps(d) == d.hook \in {"stamp", "stampThenFail"}

\* C9: after the envelope's BeforeInsert, also a repeated one, Indexes is the
\* schema's index mapping of the model as the hook left it: where the hook
\* stamps, UpdatedAt is indexed with the time of this call and CreatedAt with
\* the time of this call if it was unset before and its old value otherwise.
C9_IndexesAfterHook ==
    last.op = "BeforeInsert" =>
        /\ envelope.Indexes = DataSchemaIndexes(envelope.Data)
        /\ Stamps(envelope.Data) =>
               /\ envelope.Indexes["UpdatedAt"] = last.at
               /\ envelope.Indexes["CreatedAt"] =
                      IF last.created0 = ZeroTime THEN last.at
                      ELSE last.created0

\* a repeated BeforeInsert at a later time: the index of UpdatedAt moved on
C9_Witness ==
    /\ last.op = "BeforeInsert" /\ last.again
    /\ Stamps(envelope.Data)
    /\ envelope.Indexes["CreatedAt"] = 1
    /\ envelope.Indexes["UpdatedAt"] = 3

\* the error the domain model's BeforeInsert returns
HookError(d) == IF d.hook = "stamp" THEN NoErr ELSE d.insertErr

\* C10: the envelope's Validate and BeforeInsert return the very error the
\* wrapped model's Validate and BeforeInsert returned, and none when it
\* returned none.
C10_ErrorsPropagate ==
    /\ last.op = "Validate" => last.err = envelope.Data.validateErr
    /\ last.op = "BeforeInsert" =>
           /\ last.err = HookError(envelope.Data)
           /\ (last.err = NoErr) <=> (envelope.Data.hook = "stamp")

\* a failing hook's error came back although Indexes was overwritten
C10_Witness ==
    /\ last.op = "BeforeInsert"
    /\ last.err = "id is taken"
    /\ envelope.Data.hook = "stampThenFail"
    /\ envelope.Indexes # NilIndexes

\* what the wrapped model d itself answers to the delegated method op
OwnAnswer(op, d) ==
    CASE op = "GetSchema"        -> [name |-> "Booking",
                                     indexes |-> [CreatedAt |-> d.CreatedAt,
                                                  UpdatedAt |-> d.UpdatedAt]]
      [] op = "IsLockable"       -> d.lockable
      [] op = "ShouldEncrypt"    -> d.encrypt
      [] op = "GetLockFileNames" -> d.locks

Delegations == {"GetSchema", "IsLockable", "ShouldEncrypt", "GetLockFileNames"}

\* C11: wrap(m) makes an envelope with the current record version around m;
\* Validate, IsLockable, ShouldEncrypt, GetLockFileNames and GetSchema return
\* what the wrapped model returns and leave Version and Indexes alone; no call
\* on an envelope changes its Version, and only BeforeInsert changes Indexes.
C11_EnvelopeAddsNothing ==
    [][ /\ last'.op = "wrap" =>
              /\ envelope'.Version = "v2"
              /\ envelope'.Data = last'.arg
        /\ (envelope # NoEnvelope /\ last'.op # "wrap") =>
              /\ envelope'.Version = envelope.Version
              /\ last'.op # "BeforeInsert" =>
                     envelope'.Indexes = envelope.Indexes
        /\ last'.op \in Delegations =>
              /\ envelope # NoEnvelope
              /\ last'.ret = OwnAnswer(last'.op, envelope.Data)
        /\ last'.op = "Validate" =>
              last'.err = envelope.Data.validateErr ]_vars

\* after a BeforeInsert set the indexes, a failing Validate left them and the
\* version as they were
C11_Witness ==
    /\ last.op = "Validate" /\ last.err = "room is required"
    /\ envelope.Version = "v2"
    /\ envelope.Indexes # NilIndexes
    /\ envelope.Indexes["UpdatedAt"] = 2


(***************************************************************************)
(* Claims about the table projection (checked under SpecTable)             *)
(***************************************************************************)
\* the Data object of the record with this Content, by itself
OwnData(content) == parseContent(content).Data

\* the rendering of a value, cut for display
Shown(v) ==
    IF Len(sprintV(v)) > MaxCell THEN SubSeq(sprintV(v), 1, MaxCell)
    ELSE sprintV(v)

\* the cell a record by itself has under header h
OwnCell(content, h) ==
    IF h \in DOMAIN OwnData(content) THEN Shown(OwnData(content)[h]) ELSE ""

\* the headers of a table are the sorted keys of the first record's Data and
\* every row has one cell per header
TableShape ==
    (last.op = "table" /\ ~last.panic) =>
        /\ Len(last.table.Rows) = Len(last.out)
        /\ Len(last.out) > 0 =>
               last.table.Headers = orderMapKeys(OwnData(last.out[1].Content))
        /\ \A i \in 1..Len(last.out) :
               Len(last.table.Rows[i]) = Len(last.table.Headers)

\* C13: after table() on a block, the headers are the sorted key set of the
\* first hydrated record's Data, every row has exactly one cell per header,
\* and for every later record the cell under header h is the rendering of
\* that record's own Data value for h, or the empty string when its Data has
\* no key h.
C13_TableProjection ==
    /\ TableShape
    /\ (last.op = "table" /\ ~last.panic) =>
           \A i \in 2..Len(last.out), j \in 1..Len(last.table.Headers) :
               last.table.Rows[i][j] =
                   OwnCell(last.out[i].Content, last.table.Headers[j])

\* the example of C13: over Data {x:1,y:2}, {x:3}, {y:4,x:5} the headers are
\* [x, y] and the second row is ["3", ""]
C13_Example ==
    (last.op = "table" /\ ~last.panic /\ files[last.block] = FTable
        /\ Len(last.out) = 3) =>
        /\ last.table.Headers = <<"x", "y">>
        /\ last.table.Rows[2] = <<"3", "">>

\* what table() does return for the second record of that example
C13_StaleCell ==
    /\ last.op = "table" /\ ~last.panic /\ Len(last.out) = 3
    /\ last.table.Headers = <<"x", "y">>
    /\ last.table.Rows = << <<"1", "2">>, <<"3", "2">>, <<"5", "4">> >>


(***************************************************************************)
(* Claims about the two faces of a block (checked under SpecBlock)         *)
(***************************************************************************)
\* the keys added and not deleted since
LiveKeys(b) == {k \in Keys : hist[b][k].op = "add"}

\* what RecordCount() would answer on block b whose Dataset is missing or not,
\* whose Records are loaded and whose file holds data (-1: it would panic)
WouldCount(b, noDataset, loaded, data) ==
    IF loadRecordsOn(b, noDataset, loaded, data, << >>, << >>).panic THEN -1
    ELSE Len(loadRecordsOn(b, noDataset, loaded, data, << >>, << >>).Records)

\* the records a file holding data gives block b
OnFile(b, data) == records(b, data, << >>, << >>).records

\* C12: the record index and the hydrated view are independent: an add or a
\* delete (whether it returns or panics) leaves Records, what RecordCount()
\* would answer, the Dataset's BadBlocks and BadRecords and the file as they
\* were; RecordCount, loadRecords and table leave the record index and size()
\* as they were; size() is always the number of keys added and not deleted
\* since, and a RecordCount() that returns answers the number of records
\* read from the file.
C12_IndexAndViewIndependent ==
    [][ /\ \A b \in Blocks : size(recs'[b]) = Cardinality(LiveKeys(b)')
        /\ \A b \in Blocks :
               (last'.op = "size" /\ last'.block = b) =>
                   last'.n = Cardinality(LiveKeys(b)')
        /\ \A b \in Blocks :
               (last'.op = "RecordCount" /\ last'.block = b
                    /\ ~last'.panic) =>
                   /\ last'.n = Len(Records'[b])
                   /\ Records'[b] = OnFile(b, files'[b])
        /\ last'.op \in {"add", "delete"} =>
               /\ UNCHANGED <<Records, BadBlocks, BadRecords, files>>
               /\ \A b \in Blocks :
                      WouldCount(b, origin'[b] = "newBlock", Records'[b],
                                 files'[b])
                          = WouldCount(b, datasetIsNil(b), Records[b],
                                       files[b])
        /\ last'.op \in {"RecordCount", "loadRecords", "table"} =>
               /\ UNCHANGED <<recs, hist, files>>
               /\ \A b \in Blocks : size(recs'[b]) = size(recs[b]) ]_vars

\* both faces used on one block: two records read from the file while the
\* index, after two adds and a delete, holds one key
C12_Witness ==
    /\ last.op = "RecordCount" /\ ~last.panic /\ last.n = 2
    /\ size(recs[last.block]) = 1
    /\ \E k \in Keys : hist[last.block][k].op = "delete"
    /\ Len(Records[last.block]) = 2


(***************************************************************************)
(* Claims about byte sizes (checked under SpecFormat)                      *)
(***************************************************************************)
IsFormat == last.op \in {"formatBytes", "HumanSize"}

\* ten times bytes, in limbs
TenTimes(bytes) ==
    Bytes((10 * bytes.hi) + ((10 * bytes.lo) \div Limb), (10 * bytes.lo) % Limb)

\* 10 * bytes / 2^bits rounded down, and how the rest compares with one half
\* (-1 below, 0 a tie, 1 above), computed on the integers
ExactTenths(bytes, bits) ==
    LET t == TenTimes(bytes)
        whole == IF bits >= LimbBits THEN t.hi \div (2 ^ (bits - LimbBits))
                 ELSE ((t.hi * Limb) + t.lo) \div (2 ^ bits)
        restHi == IF bits >= LimbBits THEN t.hi % (2 ^ (bits - LimbBits))
                  ELSE 0
        restLo == IF bits >= LimbBits THEN t.lo
                  ELSE ((t.hi * Limb) + t.lo) % (2 ^ bits)
        halfHi == IF bits > LimbBits THEN 2 ^ (bits - LimbBits - 1) ELSE 0
        halfLo == IF bits > LimbBits THEN 0
                  ELSE IF bits = 0 THEN 0 ELSE 2 ^ (bits - 1)
        side == IF bits = 0 THEN -1
                ELSE IF restHi > halfHi \/ (restHi = halfHi /\ restLo > halfLo)
                THEN 1
                ELSE IF restHi = halfHi /\ restLo = halfLo THEN 0
                ELSE -1
    IN  [whole |-> whole, side |-> side]

\* the strings that show bytes / 2^bits with one decimal place, the ".0"
\* trimmed: the nearest tenth, and either neighbour on a tie
NearestShown(bytes, bits) ==
    LET x == ExactTenths(bytes, bits)
    IN  {trimmed(t) : t \in IF x.side < 0 THEN {x.whole}
                             ELSE IF x.side > 0 THEN {x.whole + 1}
                             ELSE {x.whole, x.whole + 1}}

\* the largest unit whose size is <= bytes
LargestUnit(bytes) ==
    CHOOSE i \in 1..Len(Units) :
        /\ atLeast(bytes, Units[i].bits)
        /\ \A j \in 1..Len(Units) :
               atLeast(bytes, Units[j].bits) => Units[j].bits <= Units[i].bits

\* the examples of C14
FormatExamples ==
    IsFormat =>
        /\ last.bytes = Bytes(0, 0) => last.out = "0"
        /\ last.bytes = Bytes(0, 1024) => last.out = "1KB"
        /\ last.bytes = Bytes(0, 1536) => last.out = "1.5KB"
        /\ last.bytes = Bytes(1024, 0) => last.out = "1GB"

\* C14: formatBytes (and HumanSize through it) gives "0" for 0, "1KB" for
\* 1024, "1.5KB" for 1536 and "1GB" for 1,073,741,824; for a size n > 0 the
\* unit is the largest of B, KB, MB, GB, TB whose size is <= n and the number
\* is n divided by that unit shown with one decimal place, a trailing ".0"
\* trimmed.
C14_FormatBytes ==
    /\ FormatExamples
    /\ (IsFormat /\ last.bytes # Bytes(0, 0)) =>
           \E str \in NearestShown(last.bytes,
                                    Units[LargestUnit(last.bytes)].bits) :
               last.out = str \o Units[LargestUnit(last.bytes)].name

\* sizes of at most 24 binary digits are shown as C14 says
C14_ExactBelow24Bits ==
    (IsFormat /\ last.bytes # Bytes(0, 0) /\ last.bytes.hi < 16) =>
        \E str \in NearestShown(last.bytes,
                                 Units[LargestUnit(last.bytes)].bits) :
            last.out = str \o Units[LargestUnit(last.bytes)].name

\* 16,829,645 bytes are 16.05000019 MB and are shown as 16MB
C14_Float32Slip ==
    /\ last.op = "formatBytes" /\ last.bytes = Bytes(16, 52429)
    /\ last.out = "16MB"
    /\ NearestShown(last.bytes, 20) = {"16.1"}


(***************************************************************************)
(* Claims about the booking example (checked under SpecBooking)            *)
(***************************************************************************)
\* what a call of GetLockFileNames did: it answered the single name
\* lock_<day>_<room> of its instance and left every instance as it was
LockCallIsPure ==
    \A i \in Instances :
        (last'.op = "booking.GetLockFileNames" /\ last'.inst = i) =>
            /\ booking' = booking
            /\ Len(last'.names) = 1
            /\ last'.names[1] = "lock_" \o Format(booking[i].CheckInDate)
                                        \o "_" \o booking[i].RoomId

\* C15: two booking instances with the same check-in date and the same room
\* id get the same lock names from GetLockFileNames, the single name
\* lock_<date>_<roomID>, whatever their other fields are; two instances that
\* differ in check-in date or in room id get different names; a call does
\* not change the instance.
C15_LockNamesByDateAndRoom ==
    [][ /\ \A i, j \in Instances :
               /\ (booking[i].CheckInDate = booking[j].CheckInDate
                      /\ booking[i].RoomId = booking[j].RoomId) =>
                      GetLockFileNames(booking[i])
                          = GetLockFileNames(booking[j])
               /\ (booking[i].CheckInDate # booking[j].CheckInDate
                      \/ booking[i].RoomId # booking[j].RoomId) =>
                      GetLockFileNames(booking[i])
                          # GetLockFileNames(booking[j])
        /\ LockCallIsPure ]_vars

\* C15 as it holds: the names are those of the calendar day of the check-in
\* date and of the room id; two instances of the same day and room get the
\* same single name lock_<day>_<roomID> whatever their other fields (the hour
\* of check-in among them) are, two instances of different days or rooms get
\* different names, and a call does not change the instance.
C15_LockNamesByDayAndRoom ==
    [][ /\ \A i, j \in Instances :
               (booking[i].CheckInDate.day = booking[j].CheckInDate.day
                   /\ booking[i].RoomId = booking[j].RoomId)
               <=> (GetLockFileNames(booking[i])
                        = GetLockFileNames(booking[j]))
        /\ LockCallIsPure ]_vars

\* a call on a stamped booking whose twin checks out on another day and has
\* other time stamps: the same name
C15_Witness ==
    /\ last.op = "booking.GetLockFileNames" /\ last.inst = "i1"
    /\ booking["i1"].CheckInDate = booking["i2"].CheckInDate
    /\ booking["i1"].RoomId = booking["i2"].RoomId
    /\ booking["i1"].CheckOutDate # booking["i2"].CheckOutDate
    /\ booking["i1"].CreatedAt # booking["i2"].CreatedAt
    /\ last.names = GetLockFileNames(booking["i2"])
    /\ last.names = <<"lock_2024-03-01_r1">>


\* a stamping call that found the stamps of "before" and left those of
\* "after", its clock readings being t1 and then t2
Stamped(before, after, t1, t2) ==
    /\ before.CreatedAt # ZeroTime => after.CreatedAt = before.CreatedAt
    /\ before.CreatedAt = ZeroTime => after.CreatedAt = t1
    /\ after.CreatedAt # ZeroTime
    /\ after.UpdatedAt = t2
    /\ after.CreatedAt <= after.UpdatedAt

StampingOps == {"booking.Validate", "stamped.BeforeInsert"}

\* C16: over any sequence of stamping calls (TimeStampedModel.BeforeInsert,
\* Validate of the booking model) on an instance, with a clock that never
\* goes back: a call sets the create-timestamp only when it was unset and no
\* step changes it afterwards, every call sets the update-timestamp to the
\* time of that call, and after every call create-timestamp <=
\* update-timestamp.
C16_StampsInOrder ==
    [][ /\ now <= now'
        /\ \A i \in Instances :
               IF last'.op = "booking.Validate" /\ last'.inst = i
               THEN /\ Stamped(booking[i], booking'[i], last'.t1, last'.t2)
                    /\ now <= last'.t1 /\ last'.t1 <= last'.t2
                    /\ last'.t2 <= now'
               ELSE booking'[i] = booking[i]
        /\ IF last'.op = "stamped.BeforeInsert"
           THEN /\ Stamped(stamped, stamped', last'.t1, last'.t2)
                /\ last'.t1 = now /\ last'.t2 = now
           ELSE stamped' = stamped
        /\ \A i \in Instances :
               booking'[i].CreatedAt # ZeroTime =>
                   booking'[i].CreatedAt <= booking'[i].UpdatedAt
        /\ stamped'.CreatedAt # ZeroTime =>
               stamped'.CreatedAt <= stamped'.UpdatedAt ]_vars

\* a second Validate on a booking, later than the first: the create-timestamp
\* stays, the update-timestamp moves on; and a TimeStampedModel stamped at
\* two times
C16_Witness ==
    /\ last.op = "booking.Validate"
    /\ last.before.CreatedAt # ZeroTime
    /\ booking[last.inst].CreatedAt = last.before.CreatedAt
    /\ last.before.UpdatedAt < booking[last.inst].UpdatedAt
    /\ booking[last.inst].CreatedAt < booking[last.inst].UpdatedAt
    /\ stamped.CreatedAt # ZeroTime
    /\ stamped.CreatedAt < stamped.UpdatedAt


(***************************************************************************)
(* Claims about a successful hydration (checked under SpecRead)            *)
(***************************************************************************)
\* the text of an entry after best-effort decryption: what the collaborator
\* returns when that is not empty, the entry's own text otherwise
BestEffort(str) ==
    IF cryptoDecrypt(cryptoKey, str) = "" THEN str
    ELSE cryptoDecrypt(cryptoKey, str)

\* the entries of a block file (a file that is the JSON text null has none)
EntriesOf(data) == IF data.kind = "object" THEN data.entries ELSE << >>

\* the i-th key of a set of keys in ascending order
KeyAt(S, i) ==
    CHOOSE k \in S : Cardinality({j \in S : keyLess(j, k)}) = i - 1

\* every entry of the file is a string that decodes as a record after
\* best-effort decryption
AllReadable(data) ==
    /\ data.kind \in {"object", "null"}
    /\ \A k \in DOMAIN EntriesOf(data) :
           /\ EntriesOf(data)[k].type = "string"
           /\ jsonKind(BestEffort(EntriesOf(data)[k].str))
                  \in {"object", "null"}

\* C17: a read of a block file that succeeds returns exactly one record per
\* entry of the file, in ascending key order, the content of each being the
\* formatted JSON of the entry's text after best-effort decryption (the
\* decryption when it is not empty, the entry's own text otherwise); and a
\* file whose entries all decode after best-effort decryption is read with
\* success, so that an empty decryption is by itself no bad record and no
\* error.
C17_OneRecordPerEntry ==
    IsRead =>
        LET entries == EntriesOf(files[last.block])
        IN  /\ AllReadable(files[last.block]) =>
                   (~last.panic /\ last.err = NilError)
            /\ (~last.panic /\ last.err = NilError) =>
                   /\ Len(last.out) = Cardinality(DOMAIN entries)
                   /\ BadBlocks = << >> /\ BadRecords = << >>
                   /\ \A i \in 1..Len(last.out) :
                          last.out[i].Content =
                              indent(BestEffort(
                                  entries[KeyAt(DOMAIN entries, i)].str)).out

\* a successful read of a file whose first entry is plain text (a
\* decrypt-miss) and whose second entry is encrypted
C17_Witness ==
    /\ IsRead /\ ~last.panic /\ last.err = NilError
    /\ files[last.block] = FNullEntry
    /\ cryptoDecrypt(cryptoKey, FNullEntry.entries["a"].str) = ""
    /\ cryptoDecrypt(cryptoKey, FNullEntry.entries["b"].str) = TxtXY
    /\ Len(last.out) = 2
    /\ last.out[1].Content = "null"
    /\ last.out[2].Content = indent(TxtXY).out


(***************************************************************************)
(* Claims about serialization (checked under SpecCodec)                    *)
(***************************************************************************)
\* the flat mapping an index stands for: key -> raw content
Flat(m) == [k \in DOMAIN m |-> m[k].data]

\* every mapping from some keys to contents
FlatMaps == UNION {[S -> WireValues] : S \in SUBSET Keys}

\* C18: block serialization round-trips the record index: for every index
\* reached by add and delete, MarshalJSON gives a flat JSON mapping with
\* exactly the keys of the index, each mapped to the raw content of its
\* record, and leaves the index as it is; UnmarshalJSON of such bytes into a
\* block fresh from newBlock gives an index with the same keys and
\* contents: the same size() and for every key the same get(k) outcome.
C18_RoundTrip ==
    [][ /\ \A b \in Blocks :
               (last'.op = "MarshalJSON" /\ last'.block = b) =>
                   /\ recs' = recs
                   /\ wire' = last'.out
                   /\ ~jsonUnmarshal(last'.out).err
                   /\ jsonUnmarshal(last'.out).raw = Flat(recs[b])
        /\ \A b \in Blocks, raw \in FlatMaps :
               (last'.op = "UnmarshalJSON" /\ last'.block = b
                    /\ origin[b] = "newBlock" /\ last'.fresh
                    /\ wire = jsonMarshal(raw)) =>
                   /\ ~last'.err /\ ~last'.panic
                   /\ Flat(recs'[b]) = raw
                   /\ size(recs'[b]) = Cardinality(DOMAIN raw)
                   /\ \A k \in Keys :
                          IF k \in DOMAIN raw
                          THEN /\ get(recs'[b], k).err = NoErr
                               /\ get(recs'[b], k).rec.data = raw[k]
                          ELSE get(recs'[b], k).err = ErrNotFound ]_vars

\* the bytes of an index that two adds and a delete made were decoded into a
\* fresh block: both hold the same two records, quotes and backslash intact
C18_Witness ==
    /\ last.op = "UnmarshalJSON" /\ last.fresh /\ ~last.err /\ ~last.panic
    /\ wire = "{\"a\":\"{\\\"Data\\\":{\\\"x\\\":3}}\",\"b\":\"C:\\\\dir\"}"
    /\ wire = MarshalJSON(recs[SourceBlock])
    /\ Flat(recs[TargetBlock]) = Flat(recs[SourceBlock])
    /\ recs[TargetBlock]["a"].data = TxtX
    /\ recs[TargetBlock]["b"].data = TxtPath
    /\ hist[SourceBlock]["a"].over


(***************************************************************************)
(* Claims about the collection view (checked under SpecCollection)         *)
(***************************************************************************)
\* C19: grecords(key) returns exactly size() records, one for each entry of
\* the record index; it leaves the keys of the index and the content of
\* every record as they were, and all it does to the indexed records is to
\* set the key field of each to the given sort key, so that a record fetched
\* with get(k) afterwards carries that sort key.
C19_CollectionView ==
    [][ \A b \in Blocks :
            (last'.op = "grecords" /\ last'.block = b) =>
                /\ Len(last'.out) = size(recs[b])
                /\ size(recs'[b]) = size(recs[b])
                /\ DOMAIN recs'[b] = DOMAIN recs[b]
                /\ \A k \in DOMAIN recs[b] :
                       /\ Cardinality({i \in 1..Len(last'.out) :
                                          last'.out[i] = recs'[b][k]}) = 1
                       /\ recs'[b][k] = [recs[b][k] EXCEPT !.key = last'.key]
                       /\ recs'[b][k].data = recs[b][k].data
                       /\ get(recs'[b], k).err = NoErr
                       /\ get(recs'[b], k).rec.key = last'.key
                /\ \A c \in Blocks \ {b} : recs'[c] = recs[c] ]_vars

\* a get after grecords("RoomId") on an index of two records: the record
\* fetched under "a" carries RoomId
C19_Witness ==
    /\ last.op = "get" /\ last.err = NoErr /\ last.key = "a"
    /\ last.rec.key = "RoomId"
    /\ last.rec.id = "a"
    /\ size(recs[last.block]) = 2
    /\ recs[last.block]["b"].key = "RoomId"

====
